---- MODULE Spec2Model ----
(***************************************************************************)
(* Model of the YouTube Analytics dashboard script (src/app.py): one       *)
(* Streamlit script run per action, the Google sheet it appends to, and    *)
(* the deviation check of the monitor variants.                            *)
(***************************************************************************)
EXTENDS Integers, Sequences, FiniteSets

VARIABLES
    secrets,      \* st.secrets: the set of configured keys
    credentials,  \* st.session_state.credentials: "None" or "stored"
    sheet,        \* rows of sheet1 of the target spreadsheet
    run,          \* what the last script run did
    call,         \* the last direct write_to_sheet call
    samples,      \* metric column handed to checkDeviation
    result        \* what checkDeviation returned

vars == <<secrets, credentials, sheet, run, call, samples, result>>

----------------------------------------------------------------------------
(* Bounds *)

MaxRows == 2       \* rows of one report response
MaxSheet == 4      \* rows the sheet may hold
MaxSamples == 8    \* samples handed to checkDeviation
MaxVal == 2        \* largest sample value

----------------------------------------------------------------------------
(* Secrets management, src/app.py:23-40 *)

RequiredKeys ==
    <<"GOOGLE_CLIENT_ID", "GOOGLE_CLIENT_SECRET", "REDIRECT_URI",
      "YOUTUBE_CHANNEL_ID", "GOOGLE_SHEET_ID">>

OptionalKeys == {"GOOGLE_PROJECT_ID"}

AllKeys == {RequiredKeys[i] : i \in 1..Len(RequiredKeys)} \cup OptionalKeys

AbsentKeys(s) == {RequiredKeys[i] : i \in 1..Len(RequiredKeys)} \ s

\* The try block reads the keys in the order of RequiredKeys; the first
\* st.secrets[k] of an absent key raises KeyError(k), which is the only key
\* the error message names.  GOOGLE_PROJECT_ID is read with .get and a default.
LoadSecrets(s) ==
    LET absent == {i \in 1..Len(RequiredKeys) : RequiredKeys[i] \notin s}
        first == CHOOSE i \in absent : \A j \in absent : i <= j
    IN  IF absent = {}
        THEN [halted |-> FALSE, reported |-> {}]
        ELSE [halted |-> TRUE, reported |-> {RequiredKeys[first]}]

TARGET_CHANNEL_ID == "UC_target"

ChannelIds == {"UC_target", "UC_other"}

----------------------------------------------------------------------------
(* Tables (pandas DataFrame) and the fetch result *)

NoneTable == [isNone |-> TRUE, hasColumns |-> FALSE, rows |-> 0]

\* pd.DataFrame(): no columns, no rows
EmptyTable == [isNone |-> FALSE, hasColumns |-> FALSE, rows |-> 0]

\* pd.DataFrame(rows, columns=column_headers)
Table(n) == [isNone |-> FALSE, hasColumns |-> TRUE, rows |-> n]

\* df.empty: some axis has length 0
IsEmpty(df) == ~df.hasColumns \/ df.rows = 0

\* What request.execute() of the report query can produce: a response with or
\* without the rows key, an HttpError with a status, or any other exception.
Responses ==
    {[kind |-> "ok", hasRows |-> FALSE, rows |-> 0, status |-> 200]}
    \cup {[kind |-> "ok", hasRows |-> TRUE, rows |-> n, status |-> 200] : n \in 1..MaxRows}
    \cup {[kind |-> "HttpError", hasRows |-> FALSE, rows |-> 0, status |-> s] : s \in {403, 500}}
    \cup {[kind |-> "Exception", hasRows |-> FALSE, rows |-> 0, status |-> 0]}

fetch_youtube_data(resp) ==
    IF resp.kind = "ok"
    THEN IF resp.hasRows
         THEN [raised |-> FALSE, df |-> Table(resp.rows), msg |-> "none"]
         ELSE [raised |-> FALSE, df |-> EmptyTable, msg |-> "none"]
    ELSE IF resp.kind = "HttpError"
    THEN IF resp.status = 403
         THEN [raised |-> FALSE, df |-> NoneTable, msg |-> "403 Forbidden"]
         ELSE [raised |-> FALSE, df |-> NoneTable, msg |-> "error fetching"]
    ELSE [raised |-> TRUE, df |-> NoneTable, msg |-> "none"]

----------------------------------------------------------------------------
(* Channel listing, src/app.py:64-76 *)

Listings ==
    {[kind |-> "ok", items |-> s] : s \in SUBSET ChannelIds}
    \cup {[kind |-> "HttpError", items |-> {}], [kind |-> "Exception", items |-> {}]}

NotListed == [called |-> FALSE, raised |-> FALSE, isNone |-> FALSE, items |-> {}]

get_accessible_channels(out) ==
    IF out.kind = "ok"
    THEN [called |-> TRUE, raised |-> FALSE, isNone |-> FALSE, items |-> out.items]
    ELSE IF out.kind = "HttpError"
    THEN [called |-> TRUE, raised |-> FALSE, isNone |-> TRUE, items |-> {}]
    ELSE [called |-> TRUE, raised |-> TRUE, isNone |-> FALSE, items |-> {}]

\* Faulty variant: the membership test of line 162 left out.
VerifiedNoMembership(listing) == ~listing.raised /\ ~listing.isNone

\* src/app.py:160-162
Verified(listing) ==
    /\ ~listing.raised
    /\ ~listing.isNone
    /\ TARGET_CHANNEL_ID \in listing.items

----------------------------------------------------------------------------
(* The sheet, src/app.py:108-122 *)

HeaderRow == [kind |-> "header", id |-> 0]

DataRow(i) == [kind |-> "data", id |-> i]

\* dataframe.values.tolist()
Values(df) == [i \in 1..df.rows |-> DataRow(i)]

\* sheet.update([columns], 'A1'): a list of no columns writes no cell
SheetUpdateA1(sh, df) ==
    IF ~df.hasColumns THEN sh
    ELSE IF sh = <<>> THEN <<HeaderRow>>
    ELSE [sh EXCEPT ![1] = HeaderRow]

FailPoints == {"none", "open", "get", "update", "append"}

NoCall ==
    [made |-> FALSE, ok |-> FALSE, ops |-> <<>>, failAt |-> "none",
     df |-> NoneTable, before |-> <<>>, after |-> <<>>]

\* Faulty variant: the header is appended by every call, without the
\* emptiness test of line 115.
write_to_sheet_always_header(sh, df, failAt) ==
    IF failAt = "open"
    THEN [made |-> TRUE, ok |-> FALSE, ops |-> <<>>, failAt |-> failAt,
          df |-> df, before |-> sh, after |-> sh]
    ELSE IF failAt = "get"
    THEN [made |-> TRUE, ok |-> FALSE, ops |-> <<"open">>, failAt |-> failAt,
          df |-> df, before |-> sh, after |-> sh]
    ELSE IF failAt = "update"
    THEN [made |-> TRUE, ok |-> FALSE, ops |-> <<"open", "get">>, failAt |-> failAt,
          df |-> df, before |-> sh, after |-> sh]
    ELSE IF failAt = "append"
    THEN [made |-> TRUE, ok |-> FALSE, ops |-> <<"open", "get", "update">>,
          failAt |-> failAt, df |-> df, before |-> sh,
          after |-> IF df.hasColumns THEN sh \o <<HeaderRow>> ELSE sh]
    ELSE [made |-> TRUE, ok |-> TRUE, ops |-> <<"open", "get", "update", "append">>,
          failAt |-> failAt, df |-> df, before |-> sh,
          after |-> (IF df.hasColumns THEN sh \o <<HeaderRow>> ELSE sh) \o Values(df)]

\* Faulty variant: a failure of append_rows is swallowed and the call still
\* returns True.
write_to_sheet_swallow(sh, df, failAt) ==
    LET empty == sh = <<>>
        hdr == IF empty THEN SheetUpdateA1(sh, df) ELSE sh
        pre == IF empty THEN <<"open", "get", "update">> ELSE <<"open", "get">>
    IN  IF failAt = "open"
        THEN [made |-> TRUE, ok |-> FALSE, ops |-> <<>>, failAt |-> failAt,
              df |-> df, before |-> sh, after |-> sh]
        ELSE IF failAt = "get"
        THEN [made |-> TRUE, ok |-> FALSE, ops |-> <<"open">>, failAt |-> failAt,
              df |-> df, before |-> sh, after |-> sh]
        ELSE IF failAt = "update" /\ empty
        THEN [made |-> TRUE, ok |-> FALSE, ops |-> <<"open", "get">>, failAt |-> failAt,
              df |-> df, before |-> sh, after |-> sh]
        ELSE IF failAt = "append"
        THEN [made |-> TRUE, ok |-> TRUE, ops |-> pre, failAt |-> failAt,
              df |-> df, before |-> sh, after |-> hdr]
        ELSE [made |-> TRUE, ok |-> TRUE, ops |-> Append(pre, "append"),
              failAt |-> "none", df |-> df, before |-> sh,
              after |-> hdr \o Values(df)]

\* The four sheet operations run in order inside one try block; failAt names
\* the operation that raises ("none": no operation raises).  The header update
\* runs only when get_all_values returned no row, so a failure "at update" can
\* only happen then.  Any exception ends the call with False; nothing already
\* written is undone.
write_to_sheet(sh, df, failAt) ==
    LET empty == sh = <<>>
        hdr == IF empty THEN SheetUpdateA1(sh, df) ELSE sh
        pre == IF empty THEN <<"open", "get", "update">> ELSE <<"open", "get">>
    IN  IF failAt = "open"
        THEN [made |-> TRUE, ok |-> FALSE, ops |-> <<>>, failAt |-> failAt,
              df |-> df, before |-> sh, after |-> sh]
        ELSE IF failAt = "get"
        THEN [made |-> TRUE, ok |-> FALSE, ops |-> <<"open">>, failAt |-> failAt,
              df |-> df, before |-> sh, after |-> sh]
        ELSE IF failAt = "update" /\ empty
        THEN [made |-> TRUE, ok |-> FALSE, ops |-> <<"open", "get">>, failAt |-> failAt,
              df |-> df, before |-> sh, after |-> sh]
        ELSE IF failAt = "append"
        THEN [made |-> TRUE, ok |-> FALSE, ops |-> pre, failAt |-> failAt,
              df |-> df, before |-> sh, after |-> hdr]
        ELSE [made |-> TRUE, ok |-> TRUE, ops |-> Append(pre, "append"),
              failAt |-> "none", df |-> df, before |-> sh,
              after |-> hdr \o Values(df)]

----------------------------------------------------------------------------
(* Credentials in session state, src/app.py:42-62 *)

\* get_credentials_from_session: None unless the session holds a credential
get_credentials_from_session(c) == [isNone |-> c = "None"]

AuthCodes == {"absent", "accepted", "rejected"}

\* Faulty variant: the credential is saved before fetch_token is known to
\* have succeeded.
AuthFlowSaveFirst(c, code) ==
    IF code = "absent"
    THEN [credentials |-> c, exchange |-> "none", linkOffered |-> TRUE,
          rendered |-> {}, trail |-> <<"Unauthenticated">>]
    ELSE IF code = "accepted"
    THEN [credentials |-> "stored", exchange |-> "ok", linkOffered |-> TRUE,
          rendered |-> {"Authentication successful"},
          trail |-> <<"Unauthenticated", "Authenticated-Unverified">>]
    ELSE [credentials |-> "stored", exchange |-> "failed", linkOffered |-> TRUE,
          rendered |-> {"Authentication failed"}, trail |-> <<"Unauthenticated">>]

\* Authentication flow, src/app.py:128-151.  The link is rendered before the
\* query parameter is read.  flow.fetch_token either returns (the code is
\* accepted) and the credential is saved, or raises (the code is rejected) and
\* the except clause only renders the error.
AuthFlow(c, code) ==
    IF code = "absent"
    THEN [credentials |-> c, exchange |-> "none", linkOffered |-> TRUE,
          rendered |-> {}, trail |-> <<"Unauthenticated">>]
    ELSE IF code = "accepted"
    THEN [credentials |-> "stored", exchange |-> "ok", linkOffered |-> TRUE,
          rendered |-> {"Authentication successful"},
          trail |-> <<"Unauthenticated", "Authenticated-Unverified">>]
    ELSE [credentials |-> c, exchange |-> "failed", linkOffered |-> TRUE,
          rendered |-> {"Authentication failed"}, trail |-> <<"Unauthenticated">>]

----------------------------------------------------------------------------
(* "Fetch & Update Now" handler, src/app.py:168-187 *)

NoResp == [kind |-> "none", hasRows |-> FALSE, rows |-> 0, status |-> 0]

Idle(sh) ==
    [fetchCalls |-> 0, writeCalls |-> 0, resp |-> NoResp, df |-> NoneTable,
     rendered |-> {}, success |-> FALSE, fault |-> "none", write |-> NoCall,
     sheet |-> sh]

\* Faulty variant: a failed report query is issued a second time.
FetchHandlerRetry(clicked, resp, failAt, sh) ==
    LET f == fetch_youtube_data(resp)
        w == write_to_sheet(sh, f.df, failAt)
    IN  IF ~clicked THEN Idle(sh)
        ELSE IF f.raised
        THEN [Idle(sh) EXCEPT !.fetchCalls = 1, !.resp = resp,
                              !.fault = "fetch_youtube_data"]
        ELSE IF ~f.df.isNone /\ ~IsEmpty(f.df)
        THEN [fetchCalls |-> 1, writeCalls |-> 1, resp |-> resp, df |-> f.df,
              rendered |-> {"Fetched Data"}
                           \cup (IF w.ok THEN {"Sheet updated"} ELSE {"error writing"}),
              success |-> w.ok, fault |-> "none", write |-> w, sheet |-> w.after]
        ELSE IF ~f.df.isNone /\ IsEmpty(f.df)
        THEN [Idle(sh) EXCEPT !.fetchCalls = 1, !.resp = resp, !.df = f.df,
                              !.rendered = {"No data found"}]
        ELSE [Idle(sh) EXCEPT !.fetchCalls = 2, !.resp = resp, !.df = f.df,
                              !.rendered = {f.msg, "Failed to fetch data"}]

\* clicked is what the user did; the handler runs when st.button reports it.
\* An exception fetch_youtube_data does not catch ends the script run there.
FetchHandler(clicked, resp, failAt, sh) ==
    LET f == fetch_youtube_data(resp)
        w == write_to_sheet(sh, f.df, failAt)
    IN  IF ~clicked THEN Idle(sh)
        ELSE IF f.raised
        THEN [Idle(sh) EXCEPT !.fetchCalls = 1, !.resp = resp,
                              !.fault = "fetch_youtube_data"]
        ELSE IF ~f.df.isNone /\ ~IsEmpty(f.df)
        THEN [fetchCalls |-> 1, writeCalls |-> 1, resp |-> resp, df |-> f.df,
              rendered |-> {"Fetched Data"}
                           \cup (IF w.ok THEN {"Sheet updated"} ELSE {"error writing"}),
              success |-> w.ok, fault |-> "none", write |-> w, sheet |-> w.after]
        ELSE IF ~f.df.isNone /\ IsEmpty(f.df)
        THEN [Idle(sh) EXCEPT !.fetchCalls = 1, !.resp = resp, !.df = f.df,
                              !.rendered = {"No data found"}]
        ELSE [Idle(sh) EXCEPT !.fetchCalls = 1, !.resp = resp, !.df = f.df,
                              !.rendered = {f.msg, "Failed to fetch data"}]

----------------------------------------------------------------------------
(* Script runs, src/app.py:124-196 *)

NoRun ==
    [ran |-> FALSE, halted |-> FALSE, reported |-> {}, trail |-> <<>>,
     linkOffered |-> FALSE, exchange |-> "none", prevExchange |-> "none",
     listing |-> NotListed,
     button |-> FALSE, clicked |-> FALSE, handler |-> Idle(<<>>)]

\* Main flow with a credential in the session, src/app.py:152-196
MainFlow(out, clicked, resp, failAt, sh) ==
    LET listing == get_accessible_channels(out)
        h == FetchHandler(clicked, resp, failAt, sh)
    IN  IF listing.raised
        THEN [NoRun EXCEPT !.ran = TRUE, !.trail = <<"Authenticated-Unverified">>,
                           !.listing = listing, !.clicked = clicked,
                           !.handler = [Idle(sh) EXCEPT !.fault = "get_accessible_channels"]]
        ELSE IF ~Verified(listing)
        THEN [NoRun EXCEPT !.ran = TRUE, !.trail = <<"Authenticated-Unverified">>,
                           !.listing = listing, !.clicked = clicked,
                           !.handler = [Idle(sh) EXCEPT
                               !.rendered = IF listing.isNone
                                            THEN {"error checking channels"}
                                            ELSE {"PERMISSION MISMATCH"}]]
        ELSE [NoRun EXCEPT !.ran = TRUE,
                           !.trail = <<"Authenticated-Unverified", "Authenticated-Verified">>
                                     \o (IF clicked THEN <<"Ready">> ELSE <<>>),
                           !.listing = listing, !.button = TRUE, !.clicked = clicked,
                           !.handler = h]

----------------------------------------------------------------------------
(* Deviation Monitor (monitor variants), spec section 4.5 *)

\* the configured threshold, a fraction: 1/2
ThresholdNum == 1
ThresholdDen == 2

Window == 7

RECURSIVE Sum(_)
Sum(s) == IF s = <<>> THEN 0 ELSE Head(s) + Sum(Tail(s))

Abs(x) == IF x < 0 THEN -x ELSE x

NoAlert == [alert |-> FALSE, latest |-> 0, sum7 |-> 0]

\* Faulty variant: the comparison with the threshold is >= instead of >.
checkDeviationInclusive(t) ==
    IF Len(t) < Window + 1 THEN NoAlert
    ELSE LET latest == t[Len(t)]
             sum7 == Sum(SubSeq(t, Len(t) - Window, Len(t) - 1))
         IN  IF sum7 = 0 THEN NoAlert
             ELSE IF Abs(Window * latest - sum7) * ThresholdDen >= ThresholdNum * sum7
             THEN [alert |-> TRUE, latest |-> latest, sum7 |-> sum7]
             ELSE NoAlert

\* avg7 = sum7 / 7 and deviation = |latest - avg7| / avg7, so for sum7 > 0
\* deviation > threshold is |7 * latest - sum7| * den > num * sum7.
checkDeviation(t) ==
    IF Len(t) < Window + 1 THEN NoAlert
    ELSE LET latest == t[Len(t)]
             sum7 == Sum(SubSeq(t, Len(t) - Window, Len(t) - 1))
         IN  IF sum7 = 0 THEN NoAlert
             ELSE IF Abs(Window * latest - sum7) * ThresholdDen > ThresholdNum * sum7
             THEN [alert |-> TRUE, latest |-> latest, sum7 |-> sum7]
             ELSE NoAlert

Unchecked == [alert |-> FALSE, latest |-> -1, sum7 |-> -1]

----------------------------------------------------------------------------
(* The dashboard: one action per script run *)

Init ==
    /\ secrets \in SUBSET AllKeys
    /\ credentials = "None"
    /\ sheet = <<>>
    /\ run = NoRun
    /\ call = NoCall
    /\ samples = <<>>
    /\ result = Unchecked

\* src/app.py:38-40: a missing secret stops the script before anything else
StartupHalt ==
    /\ LoadSecrets(secrets).halted
    /\ run' = [NoRun EXCEPT !.ran = TRUE, !.halted = TRUE,
                            !.reported = LoadSecrets(secrets).reported]
    /\ UNCHANGED <<secrets, credentials, sheet, call, samples, result>>

\* src/app.py:126-151: a run with no credential in the session.  After a
\* successful exchange st.rerun() ends the run; the rerun is the next run.
UnauthenticatedRun ==
    /\ ~LoadSecrets(secrets).halted
    /\ get_credentials_from_session(credentials).isNone
    /\ \E code \in AuthCodes :
         LET a == AuthFlow(credentials, code)
         IN  /\ credentials' = a.credentials
             /\ run' = [NoRun EXCEPT !.ran = TRUE, !.trail = a.trail,
                                     !.linkOffered = a.linkOffered,
                                     !.exchange = a.exchange,
                                     !.prevExchange = run.exchange,
                                     !.handler = [Idle(sheet) EXCEPT !.rendered = a.rendered]]
    /\ UNCHANGED <<secrets, sheet, call, samples, result>>

\* src/app.py:126, 152-196: a run with a credential in the session.  The user
\* can have clicked only a button the previous run rendered.
AuthenticatedRun ==
    /\ ~LoadSecrets(secrets).halted
    /\ ~get_credentials_from_session(credentials).isNone
    /\ \E out \in Listings, clicked \in BOOLEAN, resp \in Responses, failAt \in FailPoints :
         LET r == MainFlow(out, clicked, resp, failAt, sheet)
         IN  /\ clicked => run.button
             /\ Len(r.handler.sheet) <= MaxSheet
             /\ run' = r
             /\ sheet' = r.handler.sheet
    /\ UNCHANGED <<secrets, credentials, call, samples, result>>

\* src/app.py:43-44: a new browser session starts with no credential
NewSession ==
    /\ run.ran
    /\ credentials' = "None"
    /\ run' = NoRun
    /\ UNCHANGED <<secrets, sheet, call, samples, result>>

Next == StartupHalt \/ UnauthenticatedRun \/ AuthenticatedRun \/ NewSession

Spec == Init /\ [][Next]_vars

----------------------------------------------------------------------------
(* The sheet writer alone: any sequence of calls, any table *)

Tables == {EmptyTable} \cup {Table(n) : n \in 0..MaxRows}

InitSheet ==
    /\ secrets = AllKeys
    /\ credentials = "stored"
    /\ sheet = <<>>
    /\ run = NoRun
    /\ call = NoCall
    /\ samples = <<>>
    /\ result = Unchecked

WriteCall ==
    /\ \E df \in Tables, failAt \in FailPoints :
         LET w == write_to_sheet(sheet, df, failAt)
         IN  /\ Len(w.after) <= MaxSheet
             /\ call' = w
             /\ sheet' = w.after
    /\ UNCHANGED <<secrets, credentials, run, samples, result>>

NextSheet == WriteCall

SpecSheet == InitSheet /\ [][NextSheet]_vars

----------------------------------------------------------------------------
(* The deviation check alone: every metric column within the bounds *)

Columns == UNION {[1..n -> 0..MaxVal] : n \in 0..MaxSamples}

InitDev ==
    /\ secrets = AllKeys
    /\ credentials = "None"
    /\ sheet = <<>>
    /\ run = NoRun
    /\ call = NoCall
    /\ samples \in Columns
    /\ result = Unchecked

CheckDeviation ==
    /\ result = Unchecked
    /\ result' = checkDeviation(samples)
    /\ UNCHANGED <<secrets, credentials, sheet, run, call, samples>>

NextDev == CheckDeviation

SpecDev == InitDev /\ [][NextDev]_vars

----------------------------------------------------------------------------
(* Properties of the dashboard (Spec) *)

StateOrder ==
    <<"Unauthenticated", "Authenticated-Unverified", "Authenticated-Verified", "Ready">>

Rank(st) == CHOOSE i \in 1..Len(StateOrder) : StateOrder[i] = st

\* C1: the report query and the sheet write are invoked only in a run that has
\* a stored credential, whose channel listing succeeded (no None sentinel) and
\* returned the target channel id; the shell states of a run are entered in
\* the order Unauthenticated, Authenticated-Unverified, Authenticated-Verified,
\* Ready, with no state skipped, and Ready is entered exactly by a fetch.
C1_FetchOnlyWhenVerified ==
    /\ (run.handler.fetchCalls > 0 \/ run.handler.writeCalls > 0) =>
          /\ credentials # "None"
          /\ run.listing.called
          /\ ~run.listing.raised
          /\ ~run.listing.isNone
          /\ TARGET_CHANNEL_ID \in run.listing.items
    /\ \A i \in 1..(Len(run.trail) - 1) :
          Rank(run.trail[i + 1]) = Rank(run.trail[i]) + 1
    /\ (\E i \in 1..Len(run.trail) : run.trail[i] = "Ready")
          <=> run.handler.fetchCalls > 0

C1_Witness ==
    /\ run.handler.fetchCalls = 1
    /\ run.handler.writeCalls = 1
    /\ run.trail[Len(run.trail)] = "Ready"

\* C2: fetch_youtube_data returns the empty table when the response has no
\* rows key, a non-empty table when it has one, and the None sentinel (never
\* an exception) for every failure of the call, HTTP or not.
C2_FetchResult ==
    run.handler.fetchCalls > 0 =>
        LET resp == run.handler.resp
            df == run.handler.df
        IN  /\ run.handler.fault # "fetch_youtube_data"
            /\ (resp.kind = "ok" /\ ~resp.hasRows) => df = EmptyTable
            /\ (resp.kind = "ok" /\ resp.hasRows) => (df = Table(resp.rows) /\ ~IsEmpty(df))
            /\ resp.kind # "ok" => df = NoneTable
            /\ EmptyTable # NoneTable

\* C4: a configuration lacking required keys halts the run before any other
\* step and reports exactly the set of absent required keys; a configuration
\* lacking only GOOGLE_PROJECT_ID does not halt.
C4_MissingKeysReported ==
    run.ran =>
        /\ AbsentKeys(secrets) # {} =>
              /\ run.halted
              /\ run.reported = AbsentKeys(secrets)
              /\ run.trail = <<>>
              /\ ~run.listing.called
              /\ run.handler.fetchCalls = 0
        /\ AbsentKeys(secrets) = {} => ~run.halted

\* C5: no operation of a run lets an exception propagate to the shell: every
\* failure becomes a message and a sentinel result.
C5_NoUnhandledFault == run.handler.fault = "none"

\* C6: a failed code exchange leaves the session credential None, the shell
\* Unauthenticated and the authorization link offered; the credential changes
\* only by a successful exchange, and an exchange after a failed one stores it.
C6_FailedExchangeRecoverable ==
    [][/\ (run'.ran /\ run'.exchange = "failed") =>
             /\ credentials = "None"
             /\ credentials' = "None"
             /\ run'.trail = <<"Unauthenticated">>
             /\ run'.linkOffered
       /\ (credentials' # credentials /\ credentials' # "None") => run'.exchange = "ok"
       /\ (run.exchange = "failed" /\ run'.exchange = "ok") => credentials' = "stored"
       /\ run'.exchange = "ok" => credentials' = "stored"]_vars

C6_Witness ==
    /\ run.prevExchange = "failed"
    /\ run.exchange = "ok"
    /\ credentials = "stored"

\* C8 as stated: a run without a click issues no report query and no sheet
\* write; a run with a click issues exactly one report query and at most one
\* sheet write.
C8_OncePerClick ==
    run.ran =>
        /\ ~run.clicked => (run.handler.fetchCalls = 0 /\ run.handler.writeCalls = 0)
        /\ run.clicked => (run.handler.fetchCalls = 1 /\ run.handler.writeCalls <= 1)

\* C8 amended: a run without a click issues no report query and no sheet
\* write; a run with a click whose own channel verification succeeds issues
\* exactly one report query and at most one sheet write, also when the query
\* or the write fails; a run with a click whose verification does not succeed
\* issues none.
C8_OncePerVerifiedClick ==
    run.ran =>
        /\ ~run.clicked => (run.handler.fetchCalls = 0 /\ run.handler.writeCalls = 0)
        /\ (run.clicked /\ run.button) =>
              (run.handler.fetchCalls = 1 /\ run.handler.writeCalls <= 1)
        /\ (run.clicked /\ ~run.button) =>
              (run.handler.fetchCalls = 0 /\ run.handler.writeCalls = 0)
        /\ run.button <=> (run.listing.called /\ ~run.listing.raised /\ ~run.listing.isNone
                           /\ TARGET_CHANNEL_ID \in run.listing.items)

C8_Witness ==
    /\ run.clicked
    /\ run.handler.fetchCalls = 1
    /\ run.handler.df.isNone
    /\ run.handler.fault = "none"

Outcomes == {"Fetched Data", "No data found", "Failed to fetch data"}

\* C9: after a click the result of the report query is rendered as exactly one
\* of: data shown, "No data found", "Failed to fetch data"; the sheet write is
\* invoked iff the fetch returned a non-None, non-empty table, and an empty or
\* failed fetch leaves the sheet as it was.
C9_ThreeOutcomes ==
    run.handler.fetchCalls > 0 =>
        LET h == run.handler
            full == ~h.df.isNone /\ ~IsEmpty(h.df)
        IN  /\ Cardinality(h.rendered \cap Outcomes) = 1
            /\ "Fetched Data" \in h.rendered <=> full
            /\ "No data found" \in h.rendered <=> (~h.df.isNone /\ IsEmpty(h.df))
            /\ "Failed to fetch data" \in h.rendered <=> h.df.isNone
            /\ h.writeCalls = 1 <=> full
            /\ ~full => ~h.write.made

----------------------------------------------------------------------------
(* Properties of the sheet writer (SpecSheet) *)

HeaderCount(sh) == Cardinality({i \in 1..Len(sh) : sh[i].kind = "header"})

\* C3 as stated: after any write_to_sheet call to an initially empty sheet,
\* failed calls included, the sheet holds the header exactly once, as its
\* first row, and only data rows after it.
C3_HeaderExactlyOnce ==
    call.made =>
        /\ HeaderCount(sheet) = 1
        /\ sheet[1] = HeaderRow

\* C3 amended: the sheet is empty (no call has yet written a header) or holds
\* the header exactly once, as its first row, followed by data rows only; a
\* call performs the header update only if it observed the sheet empty, a call
\* that observed rows leaves the first row and the header count as they were,
\* and a call that returns success for a table with columns leaves the header
\* in the sheet.
C3_HeaderAtMostOnce ==
    /\ sheet # <<>> =>
          /\ sheet[1] = HeaderRow
          /\ HeaderCount(sheet) = 1
          /\ \A i \in 2..Len(sheet) : sheet[i].kind = "data"
    /\ call.made =>
          /\ sheet = call.after
          /\ (\E i \in 1..Len(call.ops) : call.ops[i] = "update") => call.before = <<>>
          /\ call.before # <<>> => HeaderCount(call.after) = HeaderCount(call.before)
          /\ (call.ok /\ call.df.hasColumns) => HeaderCount(sheet) = 1

C3_Witness ==
    /\ call.made
    /\ call.ok
    /\ call.before # <<>>
    /\ call.df.rows > 0
    /\ Len(sheet) > Len(call.before)

IsPrefix(s, t) == Len(s) <= Len(t) /\ \A i \in 1..Len(s) : s[i] = t[i]

\* C7: write_to_sheet returns success iff every sheet operation of the call
\* (open, get all values, the header update when the sheet was empty, append
\* rows) completed; an exception ends the call at the failing operation with
\* failure, and what was written before it (the header) stays in the sheet.
C7_AllOrNothingNoRollback ==
    call.made =>
        LET all == IF call.before = <<>>
                   THEN <<"open", "get", "update", "append">>
                   ELSE <<"open", "get", "append">>
            updated == \E i \in 1..Len(call.ops) : call.ops[i] = "update"
            kept == IF updated THEN SheetUpdateA1(call.before, call.df) ELSE call.before
        IN  /\ call.ok <=> call.ops = all
            /\ call.ok <=> call.failAt = "none"
            /\ IsPrefix(call.ops, all)
            /\ ~call.ok => (Len(call.ops) < Len(all) /\ all[Len(call.ops) + 1] = call.failAt)
            /\ ~call.ok => sheet = kept
            /\ call.ok => sheet = kept \o Values(call.df)

C7_Witness ==
    /\ call.made
    /\ ~call.ok
    /\ call.failAt = "append"
    /\ call.before = <<>>
    /\ sheet = <<HeaderRow>>

----------------------------------------------------------------------------
(* Properties of the deviation check (SpecDev) *)

\* C10: checkDeviation returns none for fewer than 8 samples and when the mean
\* of the 7 samples before the latest is zero; otherwise it returns an alert
\* iff |latest - avg7| / avg7 > threshold, so deviation = threshold is none.
C10_DeviationAlert ==
    result # Unchecked =>
        LET n == Len(samples)
        IN  IF n < 8 THEN ~result.alert
            ELSE LET latest == samples[n]
                     s7 == samples[n - 7] + samples[n - 6] + samples[n - 5] + samples[n - 4]
                           + samples[n - 3] + samples[n - 2] + samples[n - 1]
                 IN  IF s7 = 0 THEN ~result.alert
                     ELSE result.alert <=>
                            (IF 7 * latest >= s7
                             THEN (7 * latest - s7) * ThresholdDen > ThresholdNum * s7
                             ELSE (s7 - 7 * latest) * ThresholdDen > ThresholdNum * s7)

C10_Witness ==
    /\ result # Unchecked
    /\ Len(samples) = 8
    /\ \A i \in 1..7 : samples[i] = 2
    /\ samples[8] = 1
    /\ ~result.alert

====
